---- MODULE Spec2Model ----
(***************************************************************************)
(* lsrepostat (src/main.cc): main's flag parsing, the directory walk       *)
(* (Recurse / RecurseSubdirs), the four GitChecker queries, and the        *)
(* fork/exec/read/waitpid protocol of ExecInDirGetOutArgs, parent and      *)
(* child side.                                                             *)
(***************************************************************************)
EXTENDS Integers, Sequences, FiniteSets, TLC

\* ------------------------------------------------------------------ bounds
\* argc - 1: how many flags and root directories the command line holds.
MaxArgs == 2

\* ------------------------------------------------------- program constants
DEBUG == FALSE

kNone == 0
kUncommitted == 1
kUntracked == 2
kUnstaged == 4
kUnpushed == 8

RECURSIVE BitOr(_, _)
BitOr(a, b) ==
    IF a = 0 THEN b
    ELSE IF b = 0 THEN a
    ELSE (IF (a % 2 = 1) \/ (b % 2 = 1) THEN 1 ELSE 0) + 2 * BitOr(a \div 2, b \div 2)

kAny == BitOr(BitOr(kUncommitted, kUntracked), BitOr(kUnstaged, kUnpushed))

\* getopt(argc, argv, "utspa")
OptString == {"u", "t", "s", "p", "a"}

Getopt(c) == IF c \in OptString THEN c ELSE "?"

\* the cases of main's switch that set the mode
SwitchCases == {"c", "t", "s", "p", "a"}

SwitchMode(mode_, c) ==
    CASE c = "c" -> BitOr(mode_, kUncommitted)
      [] c = "t" -> BitOr(mode_, kUntracked)
      [] c = "s" -> BitOr(mode_, kUnstaged)
      [] c = "p" -> BitOr(mode_, kUnpushed)
      [] c = "a" -> kAny

\* ------------------------------------------------------------ environment
\* Flag characters a command line may hold: the five documented ones, the
\* one getopt accepts without a case ("u") and an unknown one ("z").
FlagChars == {"c", "t", "s", "p", "a", "u", "z"}

\* The directories: those below the working directory, each a sequence of
\* names, and the repository "/A" outside it.
Dirs ==
    { <<>>,
      <<"d">>, <<"d", "r">>, <<"d", "r", ".git">>,
      <<"d", "r", "n">>, <<"d", "r", "n", ".git">>,
      <<"d", "e">>,
      <<"/", "A">>, <<"/", "A", ".git">> }

\* What readdir yields for a directory, in the order it yields it.
Ent(n, t) == [name |-> n, type |-> t]

Entries(node) ==
    CASE node = <<>> ->
           << Ent(".", "DT_DIR"), Ent("..", "DT_DIR"), Ent("f", "DT_REG"),
              Ent("d", "DT_DIR") >>
      [] node = <<"d">> ->
           << Ent("..", "DT_DIR"), Ent("r", "DT_DIR"), Ent(".", "DT_DIR"),
              Ent("l", "DT_LNK"), Ent("e", "DT_DIR") >>
      [] node = <<"d", "r">> ->
           << Ent(".", "DT_DIR"), Ent("..", "DT_DIR"), Ent(".git", "DT_DIR"),
              Ent("n", "DT_DIR") >>
      [] node \in { <<"d", "r", "n">>, <<"/", "A">> } ->
           << Ent(".", "DT_DIR"), Ent("..", "DT_DIR"), Ent(".git", "DT_DIR") >>
      [] OTHER -> << Ent(".", "DT_DIR"), Ent("..", "DT_DIR") >>

\* Root arguments of the command line; "X" names nothing that exists.
RootArgs == { <<"/", "A">>, <<"X">> }

\* The directory a path string names: a leading "." is the working directory.
Node(path) == IF path # <<>> /\ Head(path) = "." THEN Tail(path) ELSE path

Exists(path) == Node(path) \in Dirs

\* isdir(path): stat succeeds and S_ISDIR
isdir(path) == Node(path) \in Dirs

\* Captured standard output of a command: characters, some of them white space.
Space == {" ", "\n"}

\* What a command may write: nothing for the --quiet ones, a list of files, a
\* reference name (none: an empty line), a commit identifier.
Outputs(cmd) ==
    CASE cmd \in {"diff-index", "diff-files"} -> { <<>> }
      [] cmd = "ls-files" -> { <<>>, <<"a", "\n">> }
      [] cmd = "symbolic-ref" -> { <<"a", "\n">> }
      [] cmd = "for-each-ref" -> { <<"\n">>, <<"a", "\n">> }
      [] cmd = "rev-parse" -> { <<"a", "\n">>, <<"a">>, <<"b", "\n">> }

\* A value a dangling path_ may read: no directory has this name.
Garbage == << "?" >>

\* ------------------------------------------------------------------- state
VARIABLES
    args,       \* argv still to be read by getopt: [flags, roots]
    mode,       \* main's mode
    pc,         \* main's position
    i,          \* main's loop index over the root arguments
    term,       \* how the process ended: [how, code]
    stack,      \* frames of Recurse and RecurseSubdirs, innermost last
    ret,        \* value returned by the frame popped last (-1: none)
    mesgs,      \* Recurse's mesgs vector for the repository being reported
    cout,       \* lines written to standard output
    chk,        \* the GitChecker method being run
    ex,         \* the ExecInDirGetOutArgs call being run (parent side)
    child,      \* the forked child of that call
    pipe,       \* what the child wrote to the pipe
    unreaped,   \* children forked and not yet waited on
    named,      \* history: the flag characters getopt was given so far
    visits,     \* history: every call of Recurse, in order: its path, the root
                \* argument and the call it was made under, what the path
                \* was found to be, and the value the call returned
    queries,    \* history: every checker query invoked, in order
    uplog,      \* history: commands spawned by the HasUnpushed call in progress
    failed      \* history: the first non-zero return of a Recurse call

vars == << args, mode, pc, i, term, stack, ret, mesgs, cout, chk, ex, child,
           pipe, unreaped, named, visits, queries, uplog, failed >>

mainVars == << args, mode, pc, i, named >>
walkVars == << stack, ret, visits, failed >>
repoVars == << mesgs, cout, queries >>
procVars == << ex, child, pipe, unreaped >>

RECURSIVE SeqsUpTo(_, _)
SeqsUpTo(S, n) ==
    IF n = 0 THEN { <<>> }
    ELSE LET shorter == SeqsUpTo(S, n - 1)
         IN  shorter \cup { Append(s, x) : s \in shorter, x \in S }

Running == [how |-> "running", code |-> 0]

ChkIdle == [pc |-> "idle", kind |-> "none", path_ |-> <<>>, step |-> 0,
            local_name |-> <<>>, local_rev |-> <<>>, remote_name |-> <<>>,
            result |-> FALSE]

ExIdle == [pc |-> "idle", cmd |-> "none", arg |-> <<>>, dir |-> <<>>,
           out |-> <<>>, ret |-> -1, execFailed |-> FALSE]

NoChild == [pc |-> "none", dir |-> <<>>, fd0 |-> "pipe_r", kids |-> 0,
            execFailed |-> FALSE,
            wstatus |-> [exited |-> FALSE, status |-> 0]]

NotFailed == [r |-> 0, nvisits |-> 0, nqueries |-> 0, ncout |-> 0]

Init ==
    /\ args \in { [flags |-> f, roots |-> r] :
                    f \in SeqsUpTo(FlagChars, MaxArgs),
                    r \in SeqsUpTo(RootArgs, MaxArgs) }
    /\ Len(args.flags) + Len(args.roots) <= MaxArgs
    /\ mode = kNone
    /\ pc = "getopt"
    /\ i = 0
    /\ term = Running
    /\ stack = <<>>
    /\ ret = -1
    /\ mesgs = <<>>
    /\ cout = <<>>
    /\ chk = ChkIdle
    /\ ex = ExIdle
    /\ child = NoChild
    /\ pipe = <<>>
    /\ unreaped = 0
    /\ named = {}
    /\ visits = <<>>
    /\ queries = <<>>
    /\ uplog = <<>>
    /\ failed = NotFailed

Alive == term.how = "running"

\* ---------------------------------------------------------- call and return
Frame(fn, path, pc_, visit) ==
    [fn |-> fn, path |-> path, pc |-> pc_, idx |-> 0, visit |-> visit, dir |-> "none"]

Top == stack[Len(stack)]

SetTop(f) == [stack EXCEPT ![Len(stack)] = f]

Pop == SubSeq(stack, 1, Len(stack) - 1)

\* Recurse(path, mode) is called from the frames in `under`.
CallRecurse(under, path, root) ==
    /\ stack' = Append(under, Frame("Recurse", path, "stat", Len(visits) + 1))
    /\ visits' = Append(visits, [path |-> path, root |-> root,
                                 parent |-> IF under = <<>> THEN 0
                                            ELSE under[Len(under)].visit,
                                 was |-> "called", ret |-> -1])
    /\ ret' = -1

\* ------------------------------------------------------------------- main
\* lines 67-83: getopt yields a flag that has a case in the switch
MainGetoptCase ==
    /\ Alive /\ pc = "getopt" /\ args.flags # <<>>
    /\ LET c == Getopt(Head(args.flags)) IN
         /\ c \in SwitchCases
         /\ mode' = SwitchMode(mode, c)
    /\ args' = [args EXCEPT !.flags = Tail(@)]
    /\ named' = named \cup {Head(args.flags)}
    /\ UNCHANGED << pc, i, term, walkVars, repoVars, chk, procVars, uplog >>

\* lines 84-86: any other value getopt yields: usage, return 2
MainGetoptDefault ==
    /\ Alive /\ pc = "getopt" /\ args.flags # <<>>
    /\ Getopt(Head(args.flags)) \notin SwitchCases
    /\ args' = [args EXCEPT !.flags = Tail(@)]
    /\ named' = named \cup {Head(args.flags)}
    /\ term' = [how |-> "return", code |-> 2]
    /\ UNCHANGED << mode, pc, i, walkVars, repoVars, chk, procVars, uplog >>

\* line 67: getopt yields -1; lines 90-91: no root argument, return Recurse(".")
MainDefaultDir ==
    /\ Alive /\ pc = "getopt" /\ args.flags = <<>>
    /\ args.roots = <<>>
    /\ pc' = "tailcall"
    /\ CallRecurse(<<>>, << "." >>, 0)
    /\ UNCHANGED << args, mode, i, term, failed, repoVars, chk, procVars, named, uplog >>

\* line 67: getopt yields -1; line 93: int i = optind
MainLoopInit ==
    /\ Alive /\ pc = "getopt" /\ args.flags = <<>>
    /\ args.roots # <<>>
    /\ pc' = "loop"
    /\ i' = 1
    /\ UNCHANGED << args, mode, term, walkVars, repoVars, chk, procVars, named, uplog >>

\* lines 93-94: i < argc, call Recurse(argv[i])
MainLoopCall ==
    /\ Alive /\ pc = "loop" /\ i <= Len(args.roots)
    /\ pc' = "callret"
    /\ CallRecurse(<<>>, args.roots[i], i)
    /\ UNCHANGED << args, mode, i, term, failed, repoVars, chk, procVars, named, uplog >>

\* ret != 0 at line 95, or the Recurse(".") of line 91 came back
PropagateToExit(pc_, ret_) == pc_ = "tailcall" \/ ret_ # 0

\* lines 91 and 95-97: the call returned
MainCallRet ==
    /\ Alive /\ pc \in {"callret", "tailcall"} /\ stack = <<>>
    /\ IF PropagateToExit(pc, ret)
         THEN /\ term' = [how |-> "return", code |-> ret]
              /\ UNCHANGED << pc, i >>
         ELSE /\ pc' = "loop"
              /\ i' = i + 1
              /\ UNCHANGED term
    /\ UNCHANGED << args, mode, walkVars, repoVars, chk, procVars, named, uplog >>

\* lines 93 and 100: the loop is over, return 0
MainDone ==
    /\ Alive /\ pc = "loop" /\ i > Len(args.roots)
    /\ term' = [how |-> "return", code |-> 0]
    /\ UNCHANGED << args, mode, pc, i, walkVars, repoVars, chk, procVars, named, uplog >>

\* ----------------------------------------------------------------- Recurse
\* A frame returns v to its caller.
Return(v) ==
    /\ stack' = Pop
    /\ ret' = v

NoteFailure(v) ==
    failed' = IF v # 0 /\ failed.r = 0
                THEN [r |-> v, nvisits |-> Len(visits),
                      nqueries |-> Len(queries), ncout |-> Len(cout)]
                ELSE failed

\* lines 314-318: stat(path); it fails when the path names nothing, and may
\* fail for a directory that exists (no search permission, removed meanwhile)
RecurseStat ==
    /\ Alive /\ stack # <<>> /\ Top.fn = "Recurse" /\ Top.pc = "stat"
    /\ \E ok \in BOOLEAN :
         /\ ok => Exists(Top.path)
         /\ IF ok
              THEN /\ stack' = SetTop([Top EXCEPT !.pc = "isdir"])
                   /\ UNCHANGED << ret, failed, visits >>
              ELSE /\ Return(1)
                   /\ NoteFailure(1)
                   /\ visits' = [visits EXCEPT ![Top.visit].was = "nostat",
                                               ![Top.visit].ret = 1]
    /\ UNCHANGED << mainVars, term, repoVars, chk, procVars, uplog >>

\* IsRepo testing path + "/git"
IsRepoNoDot(path) == isdir(Append(path, "git"))

\* line 320: isdir(path + "/.git")
IsRepo(path) == isdir(Append(path, ".git"))

\* lines 319-324: no checker, return RecurseSubdirs(path, mode)
RecurseCallSubdirs ==
    /\ Alive /\ stack # <<>> /\ Top.fn = "Recurse" /\ Top.pc = "isdir"
    /\ ~IsRepo(Top.path)
    /\ stack' = Append(SetTop([Top EXCEPT !.pc = "subret"]),
                       Frame("RecurseSubdirs", Top.path, "opendir", Top.visit))
    /\ ret' = -1
    /\ visits' = [visits EXCEPT ![Top.visit].was = "dir"]
    /\ UNCHANGED << mainVars, term, failed, repoVars, chk, procVars, uplog >>

\* line 324: RecurseSubdirs returned, return its value
RecurseSubret ==
    /\ Alive /\ stack # <<>> /\ Top.fn = "Recurse" /\ Top.pc = "subret"
    /\ Return(ret)
    /\ visits' = [visits EXCEPT ![Top.visit].ret = ret]
    /\ UNCHANGED << mainVars, term, failed, repoVars, chk, procVars, uplog >>

\* lines 319-326: checker = new GitChecker(path); mesgs is empty
RecurseNewChecker ==
    /\ Alive /\ stack # <<>> /\ Top.fn = "Recurse" /\ Top.pc = "isdir"
    /\ IsRepo(Top.path)
    /\ stack' = SetTop([Top EXCEPT !.pc = "check", !.idx = 1])
    /\ mesgs' = <<>>
    /\ visits' = [visits EXCEPT ![Top.visit].was = "repo"]
    /\ UNCHANGED << mainVars, term, ret, failed, cout, queries, chk, procVars,
                    uplog >>

\* ---------------------------------------------------------- RecurseSubdirs
\* line 298: opendir(path); NULL when the directory cannot be opened
SubdirsOpendir ==
    /\ Alive /\ stack # <<>> /\ Top.fn = "RecurseSubdirs" /\ Top.pc = "opendir"
    /\ \E ok \in BOOLEAN :
         /\ ok => Exists(Top.path)
         /\ stack' = SetTop([Top EXCEPT !.pc = "readdir",
                                        !.dir = IF ok THEN "open" ELSE "NULL"])
    /\ UNCHANGED << mainVars, term, ret, visits, failed, repoVars, chk, procVars,
                    uplog >>

\* line 300: readdir(dir) with dir == NULL dereferences the null stream
SubdirsReaddirNull ==
    /\ Alive /\ stack # <<>> /\ Top.fn = "RecurseSubdirs" /\ Top.pc = "readdir"
    /\ Top.dir = "NULL"
    /\ term' = [how |-> "signal", code |-> 11]
    /\ UNCHANGED << mainVars, walkVars, repoVars, chk, procVars, uplog >>

\* SkipEntry without the test for ".."
SkipEntryDotOnly(e) == e.type # "DT_DIR" \/ e.name = "."

\* lines 301-304: the entries the loop passes over
SkipEntry(e) == e.type # "DT_DIR" \/ e.name = "." \/ e.name = ".."

\* lines 300-304: readdir yields an entry the loop skips
SubdirsSkip ==
    /\ Alive /\ stack # <<>> /\ Top.fn = "RecurseSubdirs" /\ Top.pc = "readdir"
    /\ Top.dir = "open"
    /\ Top.idx < Len(Entries(Node(Top.path)))
    /\ SkipEntry(Entries(Node(Top.path))[Top.idx + 1])
    /\ stack' = SetTop([Top EXCEPT !.idx = @ + 1])
    /\ UNCHANGED << mainVars, term, ret, visits, failed, repoVars, chk, procVars,
                    uplog >>

\* lines 300-307: readdir yields a directory, call Recurse(path + "/" + d_name)
SubdirsRecurse ==
    /\ Alive /\ stack # <<>> /\ Top.fn = "RecurseSubdirs" /\ Top.pc = "readdir"
    /\ Top.dir = "open"
    /\ Top.idx < Len(Entries(Node(Top.path)))
    /\ LET e == Entries(Node(Top.path))[Top.idx + 1] IN
         /\ ~SkipEntry(e)
         /\ CallRecurse(SetTop([Top EXCEPT !.idx = @ + 1, !.pc = "callret"]),
                        Append(Top.path, e.name), visits[Top.visit].root)
    /\ UNCHANGED << mainVars, term, failed, repoVars, chk, procVars, uplog >>

\* Propagate testing ret < 0
PropagateNegative(ret_) == ret_ < 0

\* line 307: (ret = Recurse(p, mode)) != 0
Propagate(ret_) == ret_ # 0

\* lines 307-308: the recursive call returned
SubdirsCallret ==
    /\ Alive /\ stack # <<>> /\ Top.fn = "RecurseSubdirs" /\ Top.pc = "callret"
    /\ IF Propagate(ret)
         THEN Return(ret)
         ELSE /\ stack' = SetTop([Top EXCEPT !.pc = "readdir"])
              /\ UNCHANGED ret
    /\ UNCHANGED << mainVars, term, visits, failed, repoVars, chk, procVars, uplog >>

\* lines 300 and 310: readdir yields NULL, return 0
SubdirsDone ==
    /\ Alive /\ stack # <<>> /\ Top.fn = "RecurseSubdirs" /\ Top.pc = "readdir"
    /\ Top.dir = "open"
    /\ Top.idx = Len(Entries(Node(Top.path)))
    /\ Return(0)
    /\ UNCHANGED << mainVars, term, visits, failed, repoVars, chk, procVars, uplog >>

\* ------------------------------------------------------ Recurse: the report
\* KindAt with the checks in alphabetical order
KindAtAlphabetical(k) ==
    CASE k = 1 -> "uncommitted"
      [] k = 2 -> "unpushed"
      [] k = 3 -> "unstaged"
      [] k = 4 -> "untracked"

\* lines 327-334: the four checks in the order they are written
KindAt(k) ==
    CASE k = 1 -> "uncommitted"
      [] k = 2 -> "untracked"
      [] k = 3 -> "unstaged"
      [] k = 4 -> "unpushed"

KindBit(kind) ==
    CASE kind = "uncommitted" -> kUncommitted
      [] kind = "untracked" -> kUntracked
      [] kind = "unstaged" -> kUnstaged
      [] kind = "unpushed" -> kUnpushed

\* lines 328-334: the message pushed for a kind
Mesg(kind) ==
    CASE kind = "uncommitted" -> "has uncommited changes"
      [] kind = "untracked" -> "has untracked changes"
      [] kind = "unstaged" -> "has unstaged changes"
      [] kind = "unpushed" -> "has unpushed changes"

\* lines 327-333: the left operand of &&, (mode | kX)
ModeTest(mode_, bit) == BitOr(mode_, bit) # 0

\* the frame after check k: the next check, or the print loop of line 336
AfterCheck(f) ==
    IF f.idx < 4 THEN [f EXCEPT !.pc = "check", !.idx = @ + 1]
    ELSE [f EXCEPT !.pc = "print", !.idx = 0]

\* lines 327-333: (mode | kX) && checker->HasX(): the query is called when
\* the left operand is not zero
RecurseCheck ==
    /\ Alive /\ stack # <<>> /\ Top.fn = "Recurse" /\ Top.pc = "check"
    /\ IF ModeTest(mode, KindBit(KindAt(Top.idx)))
         THEN /\ chk' = [ChkIdle EXCEPT !.pc = "spawn", !.kind = KindAt(Top.idx),
                                        !.path_ = Top.path, !.step = 1]
              /\ queries' = Append(queries, [visit |-> Top.visit,
                                             kind |-> KindAt(Top.idx)])
              /\ stack' = SetTop([Top EXCEPT !.pc = "checkret"])
         ELSE /\ stack' = SetTop(AfterCheck(Top))
              /\ UNCHANGED << chk, queries >>
    /\ uplog' = <<>>
    /\ UNCHANGED << mainVars, term, ret, visits, failed, mesgs, cout, procVars >>

\* lines 327-334: the query returned; push_back its message when it holds
RecurseCheckret ==
    /\ Alive /\ stack # <<>> /\ Top.fn = "Recurse" /\ Top.pc = "checkret"
    /\ chk.pc = "returned"
    /\ mesgs' = IF chk.result THEN Append(mesgs, Mesg(chk.kind)) ELSE mesgs
    /\ chk' = ChkIdle
    /\ uplog' = <<>>
    /\ stack' = SetTop(AfterCheck(Top))
    /\ UNCHANGED << mainVars, term, ret, visits, failed, cout, queries, procVars >>

\* lines 336-337: one line per message
RecursePrint ==
    /\ Alive /\ stack # <<>> /\ Top.fn = "Recurse" /\ Top.pc = "print"
    /\ Top.idx < Len(mesgs)
    /\ cout' = Append(cout, [visit |-> Top.visit, path |-> Top.path,
                             mesg |-> mesgs[Top.idx + 1]])
    /\ stack' = SetTop([Top EXCEPT !.idx = @ + 1])
    /\ UNCHANGED << mainVars, term, ret, visits, failed, mesgs, queries, chk,
                    procVars, uplog >>

\* lines 339-341: delete checker; return 0
RecurseDelete ==
    /\ Alive /\ stack # <<>> /\ Top.fn = "Recurse" /\ Top.pc = "print"
    /\ Top.idx = Len(mesgs)
    /\ Return(0)
    /\ mesgs' = <<>>
    /\ visits' = [visits EXCEPT ![Top.visit].ret = 0]
    /\ UNCHANGED << mainVars, term, failed, cout, queries, chk, procVars, uplog >>

\* -------------------------------------------------------------- GitChecker
\* TrimRight with the loop condition i > 0
RECURSIVE TrimRightFromOne(_)
TrimRightFromOne(s) ==
    IF Len(s) <= 1 THEN s
    ELSE IF s[Len(s)] \in Space THEN TrimRightFromOne(SubSeq(s, 1, Len(s) - 1))
    ELSE s

\* lines 249-258
RECURSIVE TrimRight(_)
TrimRight(s) ==
    IF s = <<>> THEN <<>>
    ELSE IF s[Len(s)] \in Space THEN TrimRight(SubSeq(s, 1, Len(s) - 1))
    ELSE s

\* The command a checker method runs next (lines 234, 240, 244, 263-283).
GitCmd(c) ==
    CASE c.kind = "uncommitted" -> [cmd |-> "diff-index", arg |-> <<>>]
      [] c.kind = "unstaged" -> [cmd |-> "diff-files", arg |-> <<>>]
      [] c.kind = "untracked" -> [cmd |-> "ls-files", arg |-> <<>>]
      [] c.kind = "unpushed" /\ c.step = 1 -> [cmd |-> "symbolic-ref", arg |-> <<>>]
      [] c.kind = "unpushed" /\ c.step = 2 -> [cmd |-> "rev-parse", arg |-> c.local_name]
      [] c.kind = "unpushed" /\ c.step = 3 -> [cmd |-> "for-each-ref", arg |-> c.local_name]
      [] c.kind = "unpushed" /\ c.step = 4 -> [cmd |-> "rev-parse", arg |-> c.remote_name]

\* GitChecker(std::string path) { path_ = path.c_str(); }: path_ points into
\* the constructor's parameter, destroyed when the constructor returns, so a
\* later read of path_ yields the path or whatever replaced it.
ReadPath_(c) == {c.path_, Garbage}

\* lines 234, 240, 244, 263-283: the method calls ExecInDir / ExecInDirGetOut
CheckerSpawn ==
    /\ Alive /\ chk.pc = "spawn" /\ ex.pc = "idle"
    /\ \E d \in ReadPath_(chk) :
         ex' = [ExIdle EXCEPT !.pc = "fork", !.cmd = GitCmd(chk).cmd,
                              !.arg = GitCmd(chk).arg, !.dir = d]
    /\ chk' = [chk EXCEPT !.pc = "wait"]
    /\ uplog' = IF chk.kind = "unpushed"
                  THEN Append(uplog, [cmd |-> GitCmd(chk).cmd, arg |-> GitCmd(chk).arg,
                                      ret |-> -1, out |-> <<>>])
                  ELSE uplog
    /\ UNCHANGED << mainVars, term, walkVars, repoVars, child, pipe, unreaped >>

\* lines 203-208: ExecInDir's ExecStatus
ExecStatus(ret_, out) == [ret |-> ret_, empty |-> out = <<>>]

\* lines 233-237
HasUncommitted(st) == st.ret # 0

\* lines 239-241
HasUnstaged(st) == st.ret # 0

\* lines 243-247
HasUntracked(st) == ~st.empty

SimpleResult(kind, st) ==
    CASE kind = "uncommitted" -> HasUncommitted(st)
      [] kind = "unstaged" -> HasUnstaged(st)
      [] kind = "untracked" -> HasUntracked(st)

\* lines 236, 240, 246: HasUncommitted, HasUnstaged, HasUntracked return
CheckerReturn ==
    /\ Alive /\ chk.pc = "wait" /\ ex.pc = "returned"
    /\ chk.kind \in {"uncommitted", "unstaged", "untracked"}
    /\ chk' = [chk EXCEPT !.pc = "returned",
                          !.result = SimpleResult(chk.kind, ExecStatus(ex.ret, ex.out))]
    /\ ex' = ExIdle
    /\ UNCHANGED << mainVars, term, walkVars, repoVars, child, pipe, unreaped, uplog >>

Logged == [uplog EXCEPT ![Len(uplog)].ret = ex.ret, ![Len(uplog)].out = ex.out]

\* lines 263-265, 269-271, 275-278, 282-284: the command failed, return false
HasUnpushedFail ==
    /\ Alive /\ chk.pc = "wait" /\ ex.pc = "returned" /\ chk.kind = "unpushed"
    /\ ex.ret # 0
    /\ chk' = [chk EXCEPT !.pc = "returned", !.result = FALSE]
    /\ ex' = ExIdle
    /\ uplog' = Logged
    /\ UNCHANGED << mainVars, term, walkVars, repoVars, child, pipe, unreaped >>

\* lines 266-267, 272-273, 279-280: keep the trimmed output, go on
HasUnpushedNext ==
    /\ Alive /\ chk.pc = "wait" /\ ex.pc = "returned" /\ chk.kind = "unpushed"
    /\ ex.ret = 0 /\ chk.step < 4
    /\ chk' = [chk EXCEPT
                 !.pc = "spawn",
                 !.step = @ + 1,
                 !.local_name = IF chk.step = 1 THEN TrimRight(ex.out) ELSE @,
                 !.local_rev = IF chk.step = 2 THEN TrimRight(ex.out) ELSE @,
                 !.remote_name = IF chk.step = 3 THEN TrimRight(ex.out) ELSE @]
    /\ ex' = ExIdle
    /\ uplog' = Logged
    /\ UNCHANGED << mainVars, term, walkVars, repoVars, child, pipe, unreaped >>

\* lines 285-287: return local_rev != remote_rev
HasUnpushedCompare ==
    /\ Alive /\ chk.pc = "wait" /\ ex.pc = "returned" /\ chk.kind = "unpushed"
    /\ ex.ret = 0 /\ chk.step = 4
    /\ chk' = [chk EXCEPT !.pc = "returned",
                          !.result = (chk.local_rev # TrimRight(ex.out))]
    /\ ex' = ExIdle
    /\ uplog' = Logged
    /\ UNCHANGED << mainVars, term, walkVars, repoVars, child, pipe, unreaped >>

\* ------------------------------------------- ExecInDirGetOutArgs, the parent
\* exit(code) in the parent
Exit(code) == term' = [how |-> "exit", code |-> code]

\* lines 121-128: pipe, fork; exit(3) when fork fails. The parent does not
\* read dir again.
ExecFork ==
    /\ Alive /\ ex.pc = "fork"
    /\ \E ok \in BOOLEAN :
         IF ok
           THEN /\ child' = [NoChild EXCEPT !.pc = "dup2", !.dir = ex.dir]
                /\ pipe' = <<>>
                /\ unreaped' = unreaped + 1
                /\ ex' = [ex EXCEPT !.pc = "read", !.dir = <<>>]
                /\ UNCHANGED term
           ELSE /\ Exit(3)
                /\ UNCHANGED << ex, child, pipe, unreaped >>
    /\ UNCHANGED << mainVars, walkVars, repoVars, chk, uplog >>

\* lines 142-153: close(fd[1]); read until end of file, which comes when the
\* child, the only writer left, has ended
ExecRead ==
    /\ Alive /\ ex.pc = "read"
    /\ child.pc = "ended"
    /\ ex' = [ex EXCEPT !.pc = "waitpid", !.out = pipe]
    /\ UNCHANGED << mainVars, term, walkVars, repoVars, chk, child, pipe, unreaped,
                    uplog >>

\* RetOf without the test of WEXITSTATUS
RetOfExited(wstatus) == IF wstatus.exited THEN 0 ELSE 1

\* lines 169-171
RetOf(wstatus) == IF wstatus.exited /\ wstatus.status = 0 THEN 0 ELSE 1

\* Reaped when the call returns without waitpid
ReapedNot(n) == n

\* line 162: a child waited on is no longer pending
Reaped(n) == n - 1

\* lines 161-171: waitpid; exit(4) when it fails
ExecWaitpid ==
    /\ Alive /\ ex.pc = "waitpid"
    /\ \E ok \in BOOLEAN :
         IF ok
           THEN /\ ex' = [ex EXCEPT !.pc = "returned", !.ret = RetOf(child.wstatus),
                                    !.execFailed = child.execFailed]
                /\ child' = NoChild
                /\ unreaped' = Reaped(unreaped)
                /\ UNCHANGED term
           ELSE /\ Exit(4)
                /\ UNCHANGED << ex, child, unreaped >>
    /\ UNCHANGED << mainVars, walkVars, repoVars, chk, pipe, uplog >>

\* -------------------------------------------- ExecInDirGetOutArgs, the child
\* lines 129-134: dup2(fd[1], 1); close(fd[0]); unless DEBUG, /dev/null is
\* opened write-only, on the lowest free descriptor, which may be fd[0]'s
\* number: either way fd[0] is no longer open for reading
ChildDup2 ==
    /\ child.pc = "dup2"
    /\ child' = [child EXCEPT !.pc = "chdir", !.fd0 = "not_readable"]
    /\ UNCHANGED << mainVars, term, walkVars, repoVars, chk, ex, pipe, unreaped,
                    uplog >>

\* lines 135-139: chdir(dir); a failure is reported on stderr and ignored
ChildChdir ==
    /\ child.pc = "chdir"
    /\ child' = [child EXCEPT !.pc = "execvp", !.dir = <<>>]
    /\ UNCHANGED << mainVars, term, walkVars, repoVars, chk, ex, pipe, unreaped,
                    uplog >>

\* How the external command may end, and what it may have written.
GitEnds == { [exited |-> TRUE, status |-> 0], [exited |-> TRUE, status |-> 128],
             [exited |-> FALSE, status |-> 0] }

\* line 140: execvp succeeds; the command runs, writes and ends
ChildExecvp ==
    /\ child.pc = "execvp"
    /\ \E w \in GitEnds, o \in Outputs(ex.cmd) :
         /\ child' = [child EXCEPT !.pc = "ended", !.wstatus = w]
         /\ pipe' = o
    /\ UNCHANGED << mainVars, term, walkVars, repoVars, chk, ex, unreaped, uplog >>

\* line 140: execvp returns; the child goes on after the if, at line 142
ChildExecvpFails ==
    /\ child.pc = "execvp"
    /\ child' = [child EXCEPT !.pc = "close", !.execFailed = TRUE]
    /\ UNCHANGED << mainVars, term, walkVars, repoVars, chk, ex, pipe, unreaped,
                    uplog >>

\* line 142 in the child: close(fd[1])
ChildClose ==
    /\ child.pc = "close"
    /\ child' = [child EXCEPT !.pc = "read"]
    /\ UNCHANGED << mainVars, term, walkVars, repoVars, chk, ex, pipe, unreaped,
                    uplog >>

\* read(fd) on a descriptor that is closed or write-only returns -1
ReadFails(fd) == fd # "pipe_r"

\* lines 147-153 in the child: read(fd[0]) returns -1, the loop ends
ChildRead ==
    /\ child.pc = "read"
    /\ ReadFails(child.fd0)
    /\ child' = [child EXCEPT !.pc = "waitpid"]
    /\ UNCHANGED << mainVars, term, walkVars, repoVars, chk, ex, pipe, unreaped,
                    uplog >>

\* line 162 in the child: waitpid(0, ...) of a process with `kids` children
ChildWait(kids) == IF kids = 0 THEN -1 ELSE 0

\* lines 161-165 in the child: waitpid fails, exit(4); otherwise the child
\* would return from ExecInDirGetOutArgs into the caller's code
ChildWaitpid ==
    /\ child.pc = "waitpid"
    /\ child' = IF ChildWait(child.kids) = -1
                  THEN [child EXCEPT !.pc = "ended",
                                     !.wstatus = [exited |-> TRUE, status |-> 4]]
                  ELSE [child EXCEPT !.pc = "returned"]
    /\ UNCHANGED << mainVars, term, walkVars, repoVars, chk, ex, pipe, unreaped,
                    uplog >>

\* --------------------------------------------------------- specification
Next ==
    \/ MainGetoptCase \/ MainGetoptDefault \/ MainDefaultDir \/ MainLoopInit
    \/ MainLoopCall \/ MainCallRet \/ MainDone
    \/ RecurseStat \/ RecurseCallSubdirs \/ RecurseSubret \/ RecurseNewChecker
    \/ SubdirsOpendir \/ SubdirsReaddirNull \/ SubdirsSkip \/ SubdirsRecurse
    \/ SubdirsCallret \/ SubdirsDone
    \/ RecurseCheck \/ RecurseCheckret \/ RecursePrint \/ RecurseDelete
    \/ CheckerSpawn \/ CheckerReturn
    \/ HasUnpushedFail \/ HasUnpushedNext \/ HasUnpushedCompare
    \/ ExecFork \/ ExecRead \/ ExecWaitpid
    \/ ChildDup2 \/ ChildChdir \/ ChildExecvp \/ ChildExecvpFails
    \/ ChildClose \/ ChildRead \/ ChildWaitpid

Spec == Init /\ [][Next]_vars

\* ------------------------------------------------------------ properties
RECURSIVE BitAnd(_, _)
BitAnd(a, b) ==
    IF a = 0 \/ b = 0 THEN 0
    ELSE (IF (a % 2 = 1) /\ (b % 2 = 1) THEN 1 ELSE 0) + 2 * BitAnd(a \div 2, b \div 2)

\* The bit of the mode mask each kind of finding has.
BitOfKind(kind) ==
    CASE kind = "uncommitted" -> 1
      [] kind = "untracked" -> 2
      [] kind = "unstaged" -> 4
      [] kind = "unpushed" -> 8

\* The kind a printed message reports, and its place in the fixed order.
KindOfMesg(m) ==
    CASE m = "has uncommited changes" -> "uncommitted"
      [] m = "has untracked changes" -> "untracked"
      [] m = "has unstaged changes" -> "unstaged"
      [] m = "has unpushed changes" -> "unpushed"

RankOfMesg(m) ==
    CASE m = "has uncommited changes" -> 1
      [] m = "has untracked changes" -> 2
      [] m = "has unstaged changes" -> 3
      [] m = "has unpushed changes" -> 4

\* A directory holds a .git subdirectory.
HasDotGit(path) == Append(Node(path), ".git") \in Dirs

\* The names of the immediate child directories of a directory.
ChildDirs(path) ==
    { d[Len(d)] : d \in { x \in Dirs : x # <<>> /\ SubSeq(x, 1, Len(x) - 1) = Node(path) } }

Visits == DOMAIN visits

CallsUnder(v, c) ==
    { w \in Visits : visits[w].parent = v /\ visits[w].path = Append(visits[v].path, c) }

RECURSIVE Ancestors(_)
Ancestors(v) == IF v = 0 THEN {} ELSE {v} \cup Ancestors(visits[v].parent)

OnStack(v) == \E k \in DOMAIN stack : stack[k].fn = "Recurse" /\ stack[k].visit = v

\* t is s without its trailing white space.
IsRTrimOf(t, s) ==
    /\ Len(t) <= Len(s)
    /\ t = SubSeq(s, 1, Len(t))
    /\ \A k \in (Len(t) + 1)..Len(s) : s[k] \in Space
    /\ (t # <<>> => t[Len(t)] \notin Space)

RTrim(s) == CHOOSE t \in { SubSeq(s, 1, n) : n \in 0..Len(s) } : IsRTrimOf(t, s)

\* C1: a Status Checker query of a kind is invoked, and a line of that kind
\* printed, only if the kind's bit is set in the mode mask; with the empty
\* mask no query is invoked and no line is printed.
C1_OnlyEnabledKinds ==
    /\ \A k \in DOMAIN queries : BitAnd(mode, BitOfKind(queries[k].kind)) # 0
    /\ \A k \in DOMAIN cout : BitAnd(mode, BitOfKind(KindOfMesg(cout[k].mesg))) # 0

\* The mask the documented flags name: all four kinds once -a was given,
\* otherwise the kinds of the flags given.
MaskNamed(flags) ==
    IF "a" \in flags THEN 15
    ELSE (IF "c" \in flags THEN 1 ELSE 0) + (IF "t" \in flags THEN 2 ELSE 0)
         + (IF "s" \in flags THEN 4 ELSE 0) + (IF "p" \in flags THEN 8 ELSE 0)

\* C2: each of -c, -t, -s, -p adds its own kind to the mode mask and -a sets
\* all four; for any sequence of these five flags main does not return 2 and
\* the mask is the union of the kinds named, or all four when -a occurs.
C2_FlagsSetMask ==
    named \subseteq {"c", "t", "s", "p", "a"} =>
        /\ ~(term.how = "return" /\ term.code = 2)
        /\ mode = MaskNamed(named)

C4_EveryChildOnce ==
    term.how = "return" =>
        \A v \in Visits :
            visits[v].was = "dir" =>
                /\ \A c \in ChildDirs(visits[v].path) : Cardinality(CallsUnder(v, c)) = 1
                /\ \A k \in DOMAIN queries : queries[k].visit # v

\* C4 amended: for a directory without .git the walk lists, Recurse is called
\* only on its immediate child directories, on each at most once, and on
\* every one of them exactly once when the walk of the directory returns 0;
\* no query is invoked and no line printed for the directory itself.
C4_ChildrenOnceWhenWalkReturnsZero ==
    \A v \in Visits :
        visits[v].was = "dir" =>
            /\ ~HasDotGit(visits[v].path)
            /\ \A w \in Visits :
                 visits[w].parent = v =>
                     \E c \in ChildDirs(visits[v].path) : w \in CallsUnder(v, c)
            /\ \A c \in ChildDirs(visits[v].path) : Cardinality(CallsUnder(v, c)) <= 1
            /\ visits[v].ret = 0 =>
                 \A c \in ChildDirs(visits[v].path) : Cardinality(CallsUnder(v, c)) = 1
            /\ \A k \in DOMAIN queries : queries[k].visit # v
            /\ \A k \in DOMAIN cout : cout[k].visit # v

\* The walk of ./d, which has the child directories r and e, returned 0.
C4_Witness ==
    \E v \in Visits :
        /\ visits[v].path = <<".", "d">> /\ visits[v].ret = 0
        /\ Cardinality(ChildDirs(visits[v].path)) = 2

\* C5: once a call of Recurse has returned r # 0, no directory is visited, no
\* query invoked and no line printed any more; every enclosing call returns r
\* without resuming its listing, and main returns r.
C5_FailFast ==
    /\ \A v \in Visits : visits[v].ret \notin {-1, 0} => failed.r = visits[v].ret
    /\ (term.how = "return" /\ term.code \notin {0, 2}) => failed.r = term.code
    /\ failed.r # 0 =>
         /\ Len(visits) = failed.nvisits
         /\ Len(queries) = failed.nqueries
         /\ Len(cout) = failed.ncout
         /\ \A k \in DOMAIN stack : stack[k].pc \in {"callret", "subret"}
         /\ \A v \in Ancestors(failed.nvisits) : OnStack(v) \/ visits[v].ret = failed.r
         /\ term.how \in {"running", "return"}
         /\ term.how = "return" => term.code = failed.r

\* Two root arguments, the walk of the first returned 1, main returned 1 and
\* the second was never visited.
C5_Witness ==
    /\ Len(args.roots) = 2
    /\ term.how = "return" /\ term.code = 1
    /\ visits # <<>>
    /\ \A v \in Visits : visits[v].root = 1

\* C6: the lines of one repository come in the order uncommitted, untracked,
\* unstaged, unpushed, at most one per kind, and are contiguous.
C6_FixedOrderContiguous ==
    /\ \A a, b \in DOMAIN cout :
         (a < b /\ cout[a].visit = cout[b].visit) =>
             RankOfMesg(cout[a].mesg) < RankOfMesg(cout[b].mesg)
    /\ \A a, b \in DOMAIN cout :
         (a < b /\ b < Len(cout) /\ cout[a].visit = cout[b + 1].visit) =>
             cout[b].visit = cout[a].visit

\* Two repositories, four lines each.
C6_Witness ==
    /\ Len(cout) = 8
    /\ cout[1].visit # cout[8].visit

UnpushedCmds == << "symbolic-ref", "rev-parse", "for-each-ref", "rev-parse" >>

\* C7: HasUnpushed spawns symbolic-ref, rev-parse, for-each-ref, rev-parse in
\* this order, each on the right-trimmed output of the step it depends on,
\* spawns nothing after a command that failed, returns false when a command
\* failed, and otherwise returns whether the right-trimmed outputs of steps 2
\* and 4 differ.
C7_UnpushedProtocol ==
    chk.kind = "unpushed" =>
        /\ Len(uplog) <= 4
        /\ \A k \in DOMAIN uplog :
             /\ uplog[k].cmd = UnpushedCmds[k]
             /\ k < Len(uplog) => uplog[k].ret = 0
        /\ Len(uplog) >= 2 => IsRTrimOf(uplog[2].arg, uplog[1].out)
        /\ Len(uplog) >= 3 => IsRTrimOf(uplog[3].arg, uplog[1].out)
        /\ Len(uplog) >= 4 => IsRTrimOf(uplog[4].arg, uplog[3].out)
        /\ chk.pc = "returned" =>
             /\ uplog # <<>>
             /\ uplog[Len(uplog)].ret \in {0, 1}
             /\ uplog[Len(uplog)].ret = 0 => Len(uplog) = 4
             /\ chk.result <=>
                  /\ Len(uplog) = 4
                  /\ uplog[4].ret = 0
                  /\ RTrim(uplog[2].out) # RTrim(uplog[4].out)

\* All four commands succeeded, the two identifiers differ only in trailing
\* white space, and HasUnpushed returned false.
C7_Witness ==
    /\ chk.kind = "unpushed" /\ chk.pc = "returned"
    /\ Len(uplog) = 4 /\ uplog[4].ret = 0
    /\ uplog[2].out # uplog[4].out
    /\ ~chk.result

\* C8: at most one child is forked and not yet waited on, and none while no
\* call of the Process Runner is between its fork and its return.
C8_OneChildAtATime ==
    /\ unreaped <= 1
    /\ ex.pc \in {"idle", "fork", "returned"} => (unreaped = 0 /\ child.pc = "none")
    /\ child.pc # "none" => unreaped = 1

\* A later command of a repository is in flight, the earlier ones reaped.
C8_Witness ==
    /\ Len(queries) >= 2
    /\ unreaped = 1
    /\ child.pc = "ended"

\* C9: a child whose execvp failed never returns into the walker, writes
\* nothing to the pipe and ends with a non-zero exit status; the parent's run
\* then returns 1 with empty output.
C9_ExecFailureContained ==
    /\ child.pc # "returned"
    /\ child.execFailed =>
         /\ pipe = <<>>
         /\ child.pc = "ended" => (child.wstatus.exited /\ child.wstatus.status # 0)
    /\ (ex.pc = "returned" /\ ex.execFailed) => (ex.ret = 1 /\ ex.out = <<>>)

\* The parent's run returned after its child failed to exec.
C9_Witness ==
    /\ ex.pc = "returned" /\ ex.execFailed

\* C10: the tool ends by main returning or by exit, never stops otherwise,
\* and visits no directory twice under one root argument.
C10_EndsByReturnOrExit ==
    /\ (term.how \in {"return", "exit"}) \/ ENABLED Next
    /\ \A v, w \in Visits :
         (visits[v].root = visits[w].root /\ visits[v].path = visits[w].path) => v = w

====
